---- MODULE Spec2Model ----
(***************************************************************************)
(* Model of src/src/object_detection_post_process.py: the loitering        *)
(* manager, the detection selector, the track matcher and the per-frame    *)
(* orchestrator.                                                           *)
(*                                                                         *)
(* Numbers.  The source computes with floats.  The model keeps every       *)
(* quantity exact:                                                         *)
(*   - loitering_threshold is held in tenths of a second, so that          *)
(*     frame_threshold = loitering_threshold * fps is held in tenths of a  *)
(*     frame and `frames_present > frame_threshold` is                     *)
(*     `frames_present * 10 > frame_threshold`;                            *)
(*   - scores are held in hundredths (0.9 is 90).                          *)
(***************************************************************************)
EXTENDS Integers, Sequences, FiniteSets, TLC

VARIABLES
    \* LoiteringDetectionManager fields
    loitering_threshold,   \* tenths of a second
    fps,
    frame_threshold,       \* tenths of a frame
    track_start_frames,    \* track_id -> start frame number (a dict)
    current_frame,
    \* the last call made on the manager and what it returned
    call,
    ret,
    \* the track_ids that cleanup_missing_tracks has deleted at some time
    removed,
    \* the arguments of extract_detections / inference_result_handler
    image_shape,           \* <<img_height, img_width>>
    infer_results,         \* raw model output: per class, a list of [bbox, score]
    raw_is_view,           \* det[:4] aliases the raw data (numpy rows) or copies it (lists)
    labels,
    target_labels,         \* None or Some(list)
    config_data,
    \* what extract_detections returned, and the exception it raised
    detections,
    raised,
    \* the list bbox handed to denormalize_and_rm_pad as its box argument
    bbox,
    \* the arguments of find_best_matching_detection_index
    track_box,
    detection_boxes,
    \* the keyword arguments the caller hands to every inference_result_handler
    \* call: which collaborators are there, which options are on
    args,
    \* SpeedEstimationManager: the track_ids it holds a position for
    speed_track_ids,
    \* the frames handled so far, and of the last one: current_track_ids,
    \* the draw_detection calls and whether tracker.update was called
    frames,
    active_track_ids,
    drawn,
    tracker_called,
    \* the track_ids tracker.update returned for the last frame whose box
    \* matches no detection of that frame
    unmatched_track_ids

cfgVars == <<loitering_threshold, fps, frame_threshold>>
mgrVars == <<cfgVars, track_start_frames, current_frame>>
argVars == <<image_shape, labels, target_labels, config_data, raw_is_view>>
extractVars == <<argVars, infer_results, detections, raised, bbox>>
matchVars == <<track_box, detection_boxes>>
frameVars == <<args, speed_track_ids, frames, active_track_ids, drawn, tracker_called,
              unmatched_track_ids>>
vars == <<mgrVars, call, ret, removed, extractVars, matchVars, frameVars>>

\* An optional value: None is <<>>, a value x is <<x>>.
None == <<>>
Some(x) == <<x>>

\* ---------------------------------------------------------------- bounds
MaxApiFrame == 17
\* the longest per-class raw detection list handed to extract_detections
MaxDets == 2
\* the longest list of detection boxes handed to the track matcher
MaxMatchBoxes == 3
\* the number of frames handed to inference_result_handler
MaxFrames == 3

TrackIds == {1, 2}

\* (loitering_threshold in tenths of a second, fps): 1.0 s at 10 fps,
\* 0.5 s at 3 fps (a threshold of 1.5 frames) and 0.0 s at 30 fps.
LoiterConfigs == { <<10, 10>>, <<5, 3>>, <<0, 30>> }

EmptyDict == [t \in {} |-> 0]

\* all sequences over S of length at most n
SeqsUpTo(S, n) == UNION {[1..m -> S] : m \in 0..n}

\* Raw boxes, four normalized coordinates each, in quarters:
\* (0, 0, 0.5, 0.5), (0.25, 0.25, 1, 1) and (0.5, 0.75, 0.75, 1).
RawBoxes == { <<0, 0, 2, 2>>, <<1, 1, 4, 4>> }
OtherRawBox == <<2, 3, 3, 4>>
\* scores in hundredths
Scores == {30, 50, 90}
RawDets == [bbox : RawBoxes, score : Scores]
\* Raw model outputs of three classes: up to MaxDets detections of class 0,
\* at most one of class 1 and at most one, of score 0.95, of class 2.
RawOutputs ==
    { <<a, b, c>> : a \in SeqsUpTo(RawDets, MaxDets),
                    b \in SeqsUpTo([bbox : {OtherRawBox}, score : {30, 90}], 1),
                    c \in SeqsUpTo([bbox : {OtherRawBox}, score : {95}], 1) }
\* Boxes [x_min, y_min, x_max, y_max] for the matcher: overlapping squares,
\* a square that holds them, a box of no area, a box that touches others
\* on an edge only and a box apart from others on one axis.
MatchBoxes ==
    { <<0, 0, 2, 2>>, <<1, 1, 3, 3>>, <<2, 2, 4, 4>>, <<0, 0, 4, 4>>,
      <<1, 1, 1, 1>>, <<0, 1, 2, 3>>, <<3, 0, 4, 1>> }
\* The frames of a run are 4 x 4 (a raw coordinate in quarters is the pixel).
\* A frame shows at most one detection per class: class 0 at (0, 0, 2, 2) with
\* score 0.9 or 0.3, class 1 at (1, 1, 4, 4) and class 2 at (2, 3, 3, 4).
FrameShape == <<4, 4>>
RawFrames ==
    { <<a, b, c>> : a \in SeqsUpTo([bbox : {<<0, 0, 2, 2>>}, score : {30, 90}], 1),
                    b \in SeqsUpTo([bbox : {<<1, 1, 4, 4>>}, score : {90}], 1),
                    c \in SeqsUpTo([bbox : {OtherRawBox}, score : {95}], 1) }
\* What tracker.update may return: a track for any of the track ids, each on
\* one of the two first boxes or on a box that overlaps no detection.
TrackBoxes == { <<0, 0, 2, 2>>, <<1, 1, 4, 4>>, <<3, 0, 4, 1>> }
Tracks == [track_id : TrackIds, tlbr : TrackBoxes]
TrackerOutputs ==
    {ts \in SeqsUpTo(Tracks, Cardinality(TrackIds)) :
        \A i, j \in 1..Len(ts) : i < j => ts[i].track_id < ts[j].track_id}
\* The runs: (tracker, speed_estimation, speed_manager, loitering_detection,
\* loitering_manager, enable_person_only), the collaborators being there or
\* None.
RunArgs ==
    { [tracker |-> TRUE, speed_estimation |-> TRUE, speed_manager |-> TRUE,
       loitering_detection |-> TRUE, loitering_manager |-> TRUE,
       enable_person_only |-> FALSE],
      [tracker |-> TRUE, speed_estimation |-> FALSE, speed_manager |-> FALSE,
       loitering_detection |-> TRUE, loitering_manager |-> TRUE,
       enable_person_only |-> TRUE],
      [tracker |-> FALSE, speed_estimation |-> TRUE, speed_manager |-> TRUE,
       loitering_detection |-> TRUE, loitering_manager |-> TRUE,
       enable_person_only |-> FALSE],
      [tracker |-> TRUE, speed_estimation |-> TRUE, speed_manager |-> FALSE,
       loitering_detection |-> TRUE, loitering_manager |-> FALSE,
       enable_person_only |-> FALSE],
      [tracker |-> TRUE, speed_estimation |-> FALSE, speed_manager |-> FALSE,
       loitering_detection |-> FALSE, loitering_manager |-> TRUE,
       enable_person_only |-> FALSE] }
\* thresholds of 0 and of 1.5 frames
FrameLoiterConfigs == { <<0, 30>>, <<5, 3>> }
FrameConfigDatas == {EmptyDict, [k \in {"visualization_params"} |-> EmptyDict]}
ImageShapes == { <<6, 6>>, <<4, 6>>, <<7, 4>> }
LabelVocabularies == { <<"person", "car", "dog">>, <<"dog", "person">> }
\* the vocabularies of a run: these two and one without "person"
FrameLabelVocabularies == LabelVocabularies \cup { <<"car", "dog">> }
\* target_labels: None, ["person"] or ["dog", "car"]
TargetLabelArgs == { None, Some(<<"person">>), Some(<<"dog", "car">>) }
VisualizationParams ==
    { EmptyDict,
      [k \in {"score_thres", "max_boxes_to_draw"} |-> IF k = "score_thres" THEN 90 ELSE 1],
      [k \in {"score_thres", "max_boxes_to_draw"} |-> IF k = "score_thres" THEN 30 ELSE 2],
      [k \in {"max_boxes_to_draw"} |-> 0] }
ConfigDatas ==
    {EmptyDict} \cup {[k \in {"visualization_params"} |-> vp] : vp \in VisualizationParams}

\* ------------------------------------------- LoiteringDetectionManager
\* Each method is an operator from the fields it reads to the field it
\* writes (or to its return value).

\* the counter left as it is
update_frame_count_stuck(cf) == cf

update_frame_count(cf) == cf + 1

\* a start frame refreshed at every observation
update_track_refresh(tsf, cf, track_id) ==
    [t \in DOMAIN tsf \cup {track_id} |-> IF t = track_id THEN cf ELSE tsf[t]]

update_track(tsf, cf, track_id) ==
    IF track_id \notin DOMAIN tsf
    THEN [t \in DOMAIN tsf \cup {track_id} |-> IF t = track_id THEN cf ELSE tsf[t]]
    ELSE tsf

\* the membership test left out: the defaultdict answers 0 for an unknown id
is_loitering_default(tsf, cf, thr, track_id) ==
    LET start == IF track_id \in DOMAIN tsf THEN tsf[track_id] ELSE 0
    IN  (cf - start) * 10 > thr

\* >= in place of >
is_loitering_ge(tsf, cf, thr, track_id) ==
    IF track_id \notin DOMAIN tsf
    THEN FALSE
    ELSE (cf - tsf[track_id]) * 10 >= thr

is_loitering(tsf, cf, thr, track_id) ==
    IF track_id \notin DOMAIN tsf
    THEN FALSE
    ELSE LET frames_present == cf - tsf[track_id]
         IN  frames_present * 10 > thr

\* defaultdict(int).__getitem__: the dict after track_start_frames[track_id],
\* which inserts int() = 0 for a missing key
getitem_default(tsf, track_id) ==
    IF track_id \in DOMAIN tsf THEN tsf
    ELSE [t \in DOMAIN tsf \cup {track_id} |-> IF t = track_id THEN 0 ELSE tsf[t]]

\* the subscript reached without the membership test
after_is_loitering_untested(tsf, track_id) == getitem_default(tsf, track_id)

\* track_start_frames after is_loitering(track_id): the subscript is reached
\* only behind the membership test
after_is_loitering(tsf, track_id) ==
    IF track_id \notin DOMAIN tsf
    THEN tsf
    ELSE getitem_default(tsf, track_id)

\* the membership test inverted
cleanup_missing_tracks_inverted(tsf, current_track_ids) ==
    [t \in DOMAIN tsf \ current_track_ids |-> tsf[t]]

cleanup_missing_tracks(tsf, current_track_ids) ==
    LET ids_to_remove == {t \in DOMAIN tsf : t \notin current_track_ids}
    IN  [t \in DOMAIN tsf \ ids_to_remove |-> tsf[t]]

\* ------------------------------------------------------ small helpers
Range(f) == {f[i] : i \in DOMAIN f}
Min(a, b) == IF a <= b THEN a ELSE b
Max(a, b) == IF a >= b THEN a ELSE b
Abs(a) == IF a >= 0 THEN a ELSE -a
\* Python's int(n / d) for d > 0: truncation toward zero
Trunc(n, d) == IF n >= 0 THEN n \div d ELSE -((-n) \div d)
\* dict.get(key, default)
Get(d, key, default) == IF key \in DOMAIN d THEN d[key] ELSE default
\* seq[:n], negative n counted from the end
Slice(seq, n) ==
    IF n >= 0 THEN SubSeq(seq, 1, Min(n, Len(seq)))
    ELSE SubSeq(seq, 1, Max(0, Len(seq) + n))

DefaultTargetLabels == <<"person", "car">>
DefaultScoreThres == 50
DefaultMaxBoxes == 50

\* ------------------------------------------------- extract_detections
\* The class indices (0-based) whose label is a target label.
target_class_indices_of(lbls, tgt) ==
    {idx \in 0..(Len(lbls) - 1) : lbls[idx + 1] \in Range(tgt)}

\* A raw coordinate x is held as the number of quarters 4x, so that
\* int(x * size) is Trunc(x4 * size, 4).  i0 is Python's 0-based index.
denormalize_and_rm_pad(box, size, padding_length, input_height, input_width) ==
    [i \in 1..Len(box) |->
        LET i0 == i - 1
            scaled == Trunc(box[i] * size, 4)
            x_fixed == IF (input_width # size) /\ (i0 % 2 # 0)
                       THEN scaled - padding_length ELSE scaled
        IN  IF (input_height # size) /\ (i0 % 2 = 0)
            THEN x_fixed - padding_length ELSE x_fixed]

\* The (score, class_id, denorm_bbox) tuples of one class, in list order.
class_detections(detection, class_id, score_threshold, size, padding_length, h, w) ==
    LET kept == SelectSeq(detection, LAMBDA det : det.score >= score_threshold)
    IN  [k \in 1..Len(kept) |->
            [score |-> kept[k].score,
             class_id |-> class_id,
             bbox |-> denormalize_and_rm_pad(kept[k].bbox, size, padding_length, h, w)]]

\* all_detections after the loop over enumerate(detections), from class_id on
RECURSIVE collect_detections(_, _, _, _, _, _, _, _)
collect_detections(dets, class_id, tci, score_threshold, size, padding_length, h, w) ==
    IF class_id >= Len(dets) THEN <<>>
    ELSE (IF class_id \in tci
          THEN class_detections(dets[class_id + 1], class_id, score_threshold,
                                size, padding_length, h, w)
          ELSE <<>>)
         \o collect_detections(dets, class_id + 1, tci, score_threshold,
                               size, padding_length, h, w)

\* x put behind every element whose score is >= its own
RECURSIVE insert_desc(_, _)
insert_desc(sorted, x) ==
    IF sorted = <<>> THEN <<x>>
    ELSE IF Head(sorted).score >= x.score
         THEN <<Head(sorted)>> \o insert_desc(Tail(sorted), x)
         ELSE <<x>> \o sorted

\* x put in front of every element whose score is <= its own
RECURSIVE insert_desc_front(_, _)
insert_desc_front(sorted, x) ==
    IF sorted = <<>> THEN <<x>>
    ELSE IF Head(sorted).score > x.score
         THEN <<Head(sorted)>> \o insert_desc_front(Tail(sorted), x)
         ELSE <<x>> \o sorted

\* a descending sort that reverses the order of equal scores
RECURSIVE sort_by_score_unstable(_)
sort_by_score_unstable(all) ==
    IF all = <<>> THEN <<>>
    ELSE insert_desc_front(sort_by_score_unstable(SubSeq(all, 1, Len(all) - 1)), all[Len(all)])

\* list.sort(reverse=True, key=score): stable, equal scores keep their order
RECURSIVE sort_by_score(_)
sort_by_score(all) ==
    IF all = <<>> THEN <<>>
    ELSE insert_desc(sort_by_score(SubSeq(all, 1, Len(all) - 1)), all[Len(all)])

\* a cut one element too long
top_detections_one_more(sorted, max_boxes) == Slice(sorted, max_boxes + 1)

top_detections(sorted, max_boxes) == Slice(sorted, max_boxes)

extract_detections(shape, dets, cfg, lbls, tgt_opt) ==
    LET tgt == IF tgt_opt = None THEN DefaultTargetLabels ELSE tgt_opt[1]
        tci == target_class_indices_of(lbls, tgt)
        visualization_params == cfg["visualization_params"]
        score_threshold == Get(visualization_params, "score_thres", DefaultScoreThres)
        max_boxes == Get(visualization_params, "max_boxes_to_draw", DefaultMaxBoxes)
        img_height == shape[1]
        img_width == shape[2]
        size == Max(img_height, img_width)
        padding_length == Trunc(Abs(img_height - img_width), 2)
        all_detections == collect_detections(dets, 0, tci, score_threshold, size,
                                             padding_length, img_height, img_width)
        top == top_detections(sort_by_score(all_detections), max_boxes)
    IN  [detection_boxes |-> [k \in 1..Len(top) |-> top[k].bbox],
         detection_classes |-> [k \in 1..Len(top) |-> top[k].class_id],
         detection_scores |-> [k \in 1..Len(top) |-> top[k].score],
         num_detections |-> Len(top)]

\* The raw data after extract_detections when det[:4] is a view of it: every
\* box handed to denormalize_and_rm_pad was overwritten in place with its
\* result (a pixel value p is held as 4p quarters).
raw_after_extract(shape, dets, cfg, lbls, tgt_opt) ==
    LET tgt == IF tgt_opt = None THEN DefaultTargetLabels ELSE tgt_opt[1]
        tci == target_class_indices_of(lbls, tgt)
        score_threshold == Get(cfg["visualization_params"], "score_thres", DefaultScoreThres)
        size == Max(shape[1], shape[2])
        padding_length == Trunc(Abs(shape[1] - shape[2]), 2)
    IN  [c \in 1..Len(dets) |->
            [k \in 1..Len(dets[c]) |->
                IF (c - 1) \in tci /\ dets[c][k].score >= score_threshold
                THEN [bbox |-> [i \in 1..4 |->
                                   4 * denormalize_and_rm_pad(dets[c][k].bbox, size,
                                           padding_length, shape[1], shape[2])[i]],
                      score |-> dets[c][k].score]
                ELSE dets[c][k]]]

\* ---------------------------------------------------------- compute_iou
\* Boxes have whole coordinates, so an area is a whole number and a value
\* of the source has the form  w + e * 1e-5  with whole w and e.  It is held
\* as <<w, e>>; |e| stays far below 1e5, so the order of two such values is
\* the order of the pairs.
\* max(1e-5, area) for a whole area
area_floor(area) == IF area >= 1 THEN <<area, 0>> ELSE <<0, 1>>

\* compute_iou without the max(0, .) on the two sides of the intersection
compute_iou_unclamped(boxA, boxB) ==
    LET xA == Max(boxA[1], boxB[1])
        yA == Max(boxA[2], boxB[2])
        xB == Min(boxA[3], boxB[3])
        yB == Min(boxA[4], boxB[4])
        inter == (xB - xA) * (yB - yA)
        areaA == area_floor((boxA[3] - boxA[1]) * (boxA[4] - boxA[2]))
        areaB == area_floor((boxB[3] - boxB[1]) * (boxB[4] - boxB[2]))
    IN  <<inter, areaA[1] + areaB[1] - inter, areaA[2] + areaB[2] + 1>>

\* The IoU as the exact fraction inter / (w + e * 1e-5), held as
\* <<inter, w, e>>; the denominator is positive.
compute_iou(boxA, boxB) ==
    LET xA == Max(boxA[1], boxB[1])
        yA == Max(boxA[2], boxB[2])
        xB == Min(boxA[3], boxB[3])
        yB == Min(boxA[4], boxB[4])
        inter == Max(0, xB - xA) * Max(0, yB - yA)
        areaA == area_floor((boxA[3] - boxA[1]) * (boxA[4] - boxA[2]))
        areaB == area_floor((boxB[3] - boxB[1]) * (boxB[4] - boxB[2]))
    IN  <<inter, areaA[1] + areaB[1] - inter, areaA[2] + areaB[2] + 1>>

\* p > q and p = q for two such fractions:
\* p[1] * (q[2] + q[3] * 1e-5)  against  q[1] * (p[2] + p[3] * 1e-5)
FracGt(p, q) ==
    LET whole == p[1] * q[2] - q[1] * p[2]
        eps == p[1] * q[3] - q[1] * p[3]
    IN  whole > 0 \/ (whole = 0 /\ eps > 0)
FracEq(p, q) == ~FracGt(p, q) /\ ~FracGt(q, p)
\* best_iou = 0
Zero == <<0, 1, 0>>

\* ---------------------------------- find_best_matching_detection_index
\* The loop from its i-th iteration on (i is Python's 0-based index).
RECURSIVE best_match_from(_, _, _, _, _)
best_match_from(tbox, boxes, i, best_iou, best_idx) ==
    IF i >= Len(boxes) THEN best_idx
    ELSE LET iou == compute_iou(tbox, boxes[i + 1])
         IN  IF FracGt(iou, best_iou)
             THEN best_match_from(tbox, boxes, i + 1, iou, i)
             ELSE best_match_from(tbox, boxes, i + 1, best_iou, best_idx)

\* the loop with >= in place of >
RECURSIVE best_match_from_ge(_, _, _, _, _)
best_match_from_ge(tbox, boxes, i, best_iou, best_idx) ==
    IF i >= Len(boxes) THEN best_idx
    ELSE LET iou == compute_iou(tbox, boxes[i + 1])
         IN  IF ~FracGt(best_iou, iou)
             THEN best_match_from_ge(tbox, boxes, i + 1, iou, i)
             ELSE best_match_from_ge(tbox, boxes, i + 1, best_iou, best_idx)

find_best_matching_detection_index_ge(tbox, boxes) ==
    LET best_idx == best_match_from_ge(tbox, boxes, 0, Zero, -1)
    IN  IF best_idx # -1 THEN Some(best_idx) ELSE None

find_best_matching_detection_index(tbox, boxes) ==
    LET best_idx == best_match_from(tbox, boxes, 0, Zero, -1)
    IN  IF best_idx # -1 THEN Some(best_idx) ELSE None

EmptyDetections ==
    [detection_boxes |-> <<>>, detection_classes |-> <<>>,
     detection_scores |-> <<>>, num_detections |-> 0]

\* the defaults of inference_result_handler's keyword arguments
NoArgs ==
    [tracker |-> FALSE, speed_estimation |-> FALSE, speed_manager |-> FALSE,
     loitering_detection |-> FALSE, loitering_manager |-> FALSE,
     enable_person_only |-> FALSE]

NoFrames(a) ==
    /\ args = a
    /\ speed_track_ids = {}
    /\ frames = 0
    /\ active_track_ids = {}
    /\ drawn = {}
    /\ tracker_called = FALSE
    /\ unmatched_track_ids = {}

\* no frame has been handed over
NoFrameArgs ==
    /\ image_shape = <<0, 0>>
    /\ infer_results = <<>>
    /\ raw_is_view = FALSE
    /\ labels = <<>>
    /\ target_labels = None
    /\ config_data = EmptyDict
    /\ detections = EmptyDetections
    /\ raised = None
    /\ bbox = <<0, 0, 0, 0>>
    /\ track_box = <<0, 0, 0, 0>>
    /\ detection_boxes = <<>>
    /\ NoFrames(NoArgs)

\* ---------------------------------------------- SpeedEstimationManager
\* speed_ids is the set of track_ids the manager holds a position for.
\* The first estimate for a track_id has nothing to compare with.
estimate_speed(speed_ids, track_id) ==
    IF track_id \in speed_ids THEN Some("km/h") ELSE None

speed_ids_after_estimate(speed_ids, track_id) == speed_ids \cup {track_id}

get_smoothed_speed(speed_ids, track_id) ==
    IF track_id \in speed_ids THEN Some("km/h") ELSE None

\* ------------------------------------------- inference_result_handler
\* the search counting the labels from 1
RECURSIVE first_person_index_one_based(_, _)
first_person_index_one_based(lbls, idx) ==
    IF idx >= Len(lbls) THEN -1
    ELSE IF lbls[idx + 1] = "person" THEN idx + 1
    ELSE first_person_index_one_based(lbls, idx + 1)

\* The index of the first "person" label, -1 when it is not looked for or
\* not there.
RECURSIVE first_person_index(_, _)
first_person_index(lbls, idx) ==
    IF idx >= Len(lbls) THEN -1
    ELSE IF lbls[idx + 1] = "person" THEN idx
    ELSE first_person_index(lbls, idx + 1)

\* person_class_index initialised to 0 in place of -1
person_class_index_of_zero(lbls, a) ==
    IF a.enable_person_only \/ a.loitering_detection
    THEN Max(0, first_person_index(lbls, 0))
    ELSE 0

person_class_index_of(lbls, a) ==
    IF a.enable_person_only \/ a.loitering_detection
    THEN first_person_index(lbls, 0)
    ELSE -1

\* loitering_detection as handed on to draw_detections
loitering_detection_of(lbls, a) ==
    IF /\ (a.enable_person_only \/ a.loitering_detection)
       /\ a.enable_person_only
       /\ person_class_index_of(lbls, a) = -1
    THEN FALSE
    ELSE a.loitering_detection

\* speed_manager is not None in draw_detections: it was passed, or the
\* handler made one for this call
has_speed_manager(a) ==
    a.speed_manager \/ (a.speed_estimation /\ a.tracker)

\* --------------------------------------------------- draw_detections
\* The second filter on the target classes: the indices (1-based) kept.
RECURSIVE target_positions(_, _, _)
target_positions(classes, tci, i) ==
    IF i > Len(classes) THEN <<>>
    ELSE (IF classes[i] \in tci THEN <<i>> ELSE <<>>) \o target_positions(classes, tci, i + 1)

\* the loop with current_track_ids.add(track_id) moved in front of the test
\* on best_idx
RECURSIVE track_loop_add_first(_, _, _, _)
track_loop_add_first(online_targets, k, st, ctx) ==
    IF k > Len(online_targets) THEN st
    ELSE
      LET track == online_targets[k]
          track_id == track.track_id
          best_idx == find_best_matching_detection_index(track.tlbr, ctx.boxes)
          added == st.current_track_ids \cup {track_id}
      IN  IF best_idx = None
          THEN track_loop_add_first(online_targets, k + 1,
                                    [st EXCEPT !.current_track_ids = added], ctx)
          ELSE
            LET class_id == ctx.classes[best_idx[1] + 1]
                is_person == ctx.person_class_index # -1 /\ class_id = ctx.person_class_index
                is_relevant == ~ctx.enable_person_only \/ is_person
                observed == ctx.loitering_detection /\ is_relevant /\ ctx.loitering_manager
                tsf == IF observed
                       THEN after_is_loitering(
                                update_track(st.tsf, ctx.current_frame, track_id), track_id)
                       ELSE st.tsf
                loitering == IF observed
                             THEN is_loitering(tsf, ctx.current_frame, ctx.frame_threshold, track_id)
                             ELSE FALSE
                speed == IF ctx.speed_manager
                         THEN estimate_speed(st.speed_ids, track_id) ELSE None
                speed_ids == IF ctx.speed_manager
                             THEN speed_ids_after_estimate(st.speed_ids, track_id)
                             ELSE st.speed_ids
                display_speed == IF ctx.speed_manager /\ speed # None
                                 THEN get_smoothed_speed(speed_ids, track_id) ELSE None
            IN  track_loop_add_first(online_targets, k + 1,
                    [tsf |-> tsf,
                     speed_ids |-> speed_ids,
                     current_track_ids |-> added,
                     drawn |-> st.drawn \cup {[track_id |-> Some(track_id),
                                               class_id |-> class_id,
                                               loitering |-> loitering,
                                               speed |-> display_speed]}],
                    ctx)

\* the loop asking get_smoothed_speed whatever estimate_speed returned
RECURSIVE track_loop_always_smoothed(_, _, _, _)
track_loop_always_smoothed(online_targets, k, st, ctx) ==
    IF k > Len(online_targets) THEN st
    ELSE
      LET track == online_targets[k]
          track_id == track.track_id
          best_idx == find_best_matching_detection_index(track.tlbr, ctx.boxes)
      IN  IF best_idx = None THEN track_loop_always_smoothed(online_targets, k + 1, st, ctx)
          ELSE
            LET class_id == ctx.classes[best_idx[1] + 1]
                is_person == ctx.person_class_index # -1 /\ class_id = ctx.person_class_index
                is_relevant == ~ctx.enable_person_only \/ is_person
                observed == ctx.loitering_detection /\ is_relevant /\ ctx.loitering_manager
                tsf == IF observed
                       THEN after_is_loitering(
                                update_track(st.tsf, ctx.current_frame, track_id), track_id)
                       ELSE st.tsf
                loitering == IF observed
                             THEN is_loitering(tsf, ctx.current_frame, ctx.frame_threshold, track_id)
                             ELSE FALSE
                speed == IF ctx.speed_manager
                         THEN estimate_speed(st.speed_ids, track_id) ELSE None
                speed_ids == IF ctx.speed_manager
                             THEN speed_ids_after_estimate(st.speed_ids, track_id)
                             ELSE st.speed_ids
                display_speed == IF ctx.speed_manager
                                 THEN get_smoothed_speed(speed_ids, track_id) ELSE None
            IN  track_loop_always_smoothed(online_targets, k + 1,
                    [tsf |-> tsf,
                     speed_ids |-> speed_ids,
                     current_track_ids |-> st.current_track_ids \cup {track_id},
                     drawn |-> st.drawn \cup {[track_id |-> Some(track_id),
                                               class_id |-> class_id,
                                               loitering |-> loitering,
                                               speed |-> display_speed]}],
                    ctx)

\* The loop over online_targets from its k-th track on.  st holds what the
\* loop writes: track_start_frames, the speed manager's track_ids,
\* current_track_ids and the draw_detection calls.  ctx holds what it reads.
RECURSIVE track_loop(_, _, _, _)
track_loop(online_targets, k, st, ctx) ==
    IF k > Len(online_targets) THEN st
    ELSE
      LET track == online_targets[k]
          track_id == track.track_id
          best_idx == find_best_matching_detection_index(track.tlbr, ctx.boxes)
      IN  IF best_idx = None THEN track_loop(online_targets, k + 1, st, ctx)
          ELSE
            LET class_id == ctx.classes[best_idx[1] + 1]
                is_person == ctx.person_class_index # -1 /\ class_id = ctx.person_class_index
                is_relevant == ~ctx.enable_person_only \/ is_person
                observed == ctx.loitering_detection /\ is_relevant /\ ctx.loitering_manager
                tsf == IF observed
                       THEN after_is_loitering(
                                update_track(st.tsf, ctx.current_frame, track_id), track_id)
                       ELSE st.tsf
                loitering == IF observed
                             THEN is_loitering(tsf, ctx.current_frame, ctx.frame_threshold, track_id)
                             ELSE FALSE
                speed == IF ctx.speed_manager
                         THEN estimate_speed(st.speed_ids, track_id) ELSE None
                speed_ids == IF ctx.speed_manager
                             THEN speed_ids_after_estimate(st.speed_ids, track_id)
                             ELSE st.speed_ids
                display_speed == IF ctx.speed_manager /\ speed # None
                                 THEN get_smoothed_speed(speed_ids, track_id) ELSE None
            IN  track_loop(online_targets, k + 1,
                    [tsf |-> tsf,
                     speed_ids |-> speed_ids,
                     current_track_ids |-> st.current_track_ids \cup {track_id},
                     drawn |-> st.drawn \cup {[track_id |-> Some(track_id),
                                               class_id |-> class_id,
                                               loitering |-> loitering,
                                               speed |-> display_speed]}],
                    ctx)

\* the track_ids of online_targets for which the matcher returns None
unmatched_ids(online_targets, boxes) ==
    {online_targets[k].track_id : k \in {j \in 1..Len(online_targets) :
        find_best_matching_detection_index(online_targets[j].tlbr, boxes) = None}}

\* draw_detections without the return for an empty dets_for_tracker
draw_detections_no_early_return(dets, lbls, tgt_opt, a, ld, pci, mgr, speed_ids, online_targets) ==
    LET tgt == IF tgt_opt = None THEN DefaultTargetLabels ELSE tgt_opt[1]
        tci == target_class_indices_of(lbls, tgt)
        kept == target_positions(dets.detection_classes, tci, 1)
        boxes == [k \in 1..Len(kept) |-> dets.detection_boxes[kept[k]]]
        classes == [k \in 1..Len(kept) |-> dets.detection_classes[kept[k]]]
        num_detections == Len(kept)
        quiet == [tsf |-> mgr[1], current_frame |-> mgr[2], speed_ids |-> speed_ids,
                  current_track_ids |-> {}, drawn |-> {}, tracker_called |-> FALSE]
    IN  IF a.tracker
        THEN IF FALSE
             THEN quiet
             ELSE LET cf == IF a.loitering_manager THEN update_frame_count(mgr[2]) ELSE mgr[2]
                      st == track_loop(online_targets, 1,
                                [tsf |-> mgr[1], speed_ids |-> speed_ids,
                                 current_track_ids |-> {}, drawn |-> {}],
                                [boxes |-> boxes, classes |-> classes,
                                 loitering_detection |-> ld,
                                 loitering_manager |-> a.loitering_manager,
                                 enable_person_only |-> a.enable_person_only,
                                 person_class_index |-> pci,
                                 speed_manager |-> has_speed_manager(a),
                                 current_frame |-> cf, frame_threshold |-> mgr[3]])
                  IN  [tsf |-> IF a.loitering_manager
                               THEN cleanup_missing_tracks(st.tsf, st.current_track_ids)
                               ELSE st.tsf,
                       current_frame |-> cf,
                       speed_ids |-> st.speed_ids,
                       current_track_ids |-> st.current_track_ids,
                       drawn |-> st.drawn,
                       tracker_called |-> TRUE]
        ELSE [quiet EXCEPT !.drawn =
                 {[track_id |-> None, class_id |-> classes[k],
                   loitering |-> FALSE, speed |-> None] : k \in 1..num_detections}]

\* draw_detections: the state it leaves behind, given what extract_detections
\* returned and what tracker.update returns when it is called.  ld and pci
\* are the arguments loitering_detection and person_class_index, mgr is
\* <<track_start_frames, current_frame, frame_threshold>>.
draw_detections(dets, lbls, tgt_opt, a, ld, pci, mgr, speed_ids, online_targets) ==
    LET tgt == IF tgt_opt = None THEN DefaultTargetLabels ELSE tgt_opt[1]
        tci == target_class_indices_of(lbls, tgt)
        kept == target_positions(dets.detection_classes, tci, 1)
        boxes == [k \in 1..Len(kept) |-> dets.detection_boxes[kept[k]]]
        classes == [k \in 1..Len(kept) |-> dets.detection_classes[kept[k]]]
        num_detections == Len(kept)
        quiet == [tsf |-> mgr[1], current_frame |-> mgr[2], speed_ids |-> speed_ids,
                  current_track_ids |-> {}, drawn |-> {}, tracker_called |-> FALSE]
    IN  IF a.tracker
        THEN IF num_detections = 0
             THEN quiet
             ELSE LET cf == IF a.loitering_manager THEN update_frame_count(mgr[2]) ELSE mgr[2]
                      st == track_loop(online_targets, 1,
                                [tsf |-> mgr[1], speed_ids |-> speed_ids,
                                 current_track_ids |-> {}, drawn |-> {}],
                                [boxes |-> boxes, classes |-> classes,
                                 loitering_detection |-> ld,
                                 loitering_manager |-> a.loitering_manager,
                                 enable_person_only |-> a.enable_person_only,
                                 person_class_index |-> pci,
                                 speed_manager |-> has_speed_manager(a),
                                 current_frame |-> cf, frame_threshold |-> mgr[3]])
                  IN  [tsf |-> IF a.loitering_manager
                               THEN cleanup_missing_tracks(st.tsf, st.current_track_ids)
                               ELSE st.tsf,
                       current_frame |-> cf,
                       speed_ids |-> st.speed_ids,
                       current_track_ids |-> st.current_track_ids,
                       drawn |-> st.drawn,
                       tracker_called |-> TRUE]
        ELSE [quiet EXCEPT !.drawn =
                 {[track_id |-> None, class_id |-> classes[k],
                   loitering |-> FALSE, speed |-> None] : k \in 1..num_detections}]

\* ----------------------------------- the manager driven through its API
\* A call on the manager: the method, and its argument when it has one.
Call(op) == [op |-> op, track_id |-> 0, current_track_ids |-> {}]
CallOn(op, track_id) == [op |-> op, track_id |-> track_id, current_track_ids |-> {}]
CallWith(op, ids) == [op |-> op, track_id |-> 0, current_track_ids |-> ids]

InitManager(c) ==
    /\ loitering_threshold = c[1]
    /\ fps = c[2]
    /\ frame_threshold = c[1] * c[2]
    /\ track_start_frames = EmptyDict
    /\ current_frame = 0

InitLoiter ==
    /\ \E c \in LoiterConfigs : InitManager(c)
    /\ call = Call("__init__")
    /\ ret = None
    /\ removed = {}
    /\ NoFrameArgs

CallUpdateFrameCount ==
    /\ current_frame < MaxApiFrame
    /\ current_frame' = update_frame_count(current_frame)
    /\ call' = Call("update_frame_count")
    /\ ret' = None
    /\ UNCHANGED <<cfgVars, track_start_frames, removed, extractVars, matchVars, frameVars>>

CallUpdateTrack ==
    \E track_id \in TrackIds :
        /\ track_start_frames' = update_track(track_start_frames, current_frame, track_id)
        /\ call' = CallOn("update_track", track_id)
        /\ ret' = None
        /\ UNCHANGED <<cfgVars, current_frame, removed, extractVars, matchVars, frameVars>>

CallIsLoitering ==
    \E track_id \in TrackIds :
        /\ ret' = Some(is_loitering(track_start_frames, current_frame, frame_threshold, track_id))
        /\ track_start_frames' = after_is_loitering(track_start_frames, track_id)
        /\ call' = CallOn("is_loitering", track_id)
        /\ UNCHANGED <<cfgVars, current_frame, removed, extractVars, matchVars, frameVars>>

CallCleanupMissingTracks ==
    \E current_track_ids \in SUBSET TrackIds :
        /\ track_start_frames' = cleanup_missing_tracks(track_start_frames, current_track_ids)
        /\ removed' = removed \cup (DOMAIN track_start_frames \ DOMAIN track_start_frames')
        /\ call' = CallWith("cleanup_missing_tracks", current_track_ids)
        /\ ret' = None
        /\ UNCHANGED <<cfgVars, current_frame, extractVars, matchVars, frameVars>>

NextLoiter ==
    \/ CallUpdateFrameCount
    \/ CallUpdateTrack
    \/ CallIsLoitering
    \/ CallCleanupMissingTracks

SpecLoiter == InitLoiter /\ [][NextLoiter]_vars

\* ------------------------------------- extract_detections on its own
InitExtract ==
    /\ image_shape \in ImageShapes
    /\ infer_results \in RawOutputs
    /\ raw_is_view \in BOOLEAN
    /\ labels \in LabelVocabularies
    /\ target_labels \in TargetLabelArgs
    /\ config_data \in ConfigDatas
    /\ detections = EmptyDetections
    /\ raised = None
    /\ bbox \in RawBoxes
    /\ track_box = <<0, 0, 0, 0>>
    /\ detection_boxes = <<>>
    /\ NoFrames(NoArgs)
    /\ InitManager(<<0, 30>>)
    /\ call = Call("__init__")
    /\ ret = None
    /\ removed = {}

CallExtractDetections ==
    /\ call.op = "__init__"
    /\ call' = Call("extract_detections")
    /\ IF "visualization_params" \notin DOMAIN config_data
       THEN /\ raised' = Some("KeyError")
            /\ UNCHANGED <<detections, infer_results>>
       ELSE /\ detections' = extract_detections(image_shape, infer_results, config_data,
                                                labels, target_labels)
            /\ infer_results' = IF raw_is_view
                                THEN raw_after_extract(image_shape, infer_results,
                                                       config_data, labels, target_labels)
                                ELSE infer_results
            /\ raised' = None
    /\ UNCHANGED <<mgrVars, ret, removed, argVars, bbox, matchVars, frameVars>>

\* denormalize_and_rm_pad(bbox, size, padding_length, img_height, img_width)
\* called with the size and padding of the image, as extract_detections
\* computes them.  The loop assigns box[i], so the list passed as argument
\* holds the result afterwards (a pixel value p is 4p quarters).
CallDenormalize ==
    /\ call.op = "__init__"
    /\ call' = Call("denormalize_and_rm_pad")
    /\ \E result \in {denormalize_and_rm_pad(bbox, Max(image_shape[1], image_shape[2]),
                            Trunc(Abs(image_shape[1] - image_shape[2]), 2),
                            image_shape[1], image_shape[2])} :
          /\ ret' = Some(result)
          /\ bbox' = [i \in 1..Len(bbox) |-> 4 * result[i]]
    /\ UNCHANGED <<mgrVars, removed, argVars, infer_results, detections, raised,
                   matchVars, frameVars>>

NextExtract ==
    \/ CallExtractDetections
    \/ CallDenormalize

SpecExtract == InitExtract /\ [][NextExtract]_vars

\* ------------------------------------------- the matcher on its own
InitMatch ==
    /\ track_box \in MatchBoxes
    /\ detection_boxes \in SeqsUpTo(MatchBoxes, MaxMatchBoxes)
    /\ image_shape = <<0, 0>>
    /\ infer_results = <<>>
    /\ raw_is_view = FALSE
    /\ labels = <<>>
    /\ target_labels = None
    /\ config_data = EmptyDict
    /\ detections = EmptyDetections
    /\ raised = None
    /\ bbox = <<0, 0, 0, 0>>
    /\ NoFrames(NoArgs)
    /\ InitManager(<<0, 30>>)
    /\ call = Call("__init__")
    /\ ret = None
    /\ removed = {}

CallFindBestMatch ==
    /\ call.op = "__init__"
    /\ call' = Call("find_best_matching_detection_index")
    /\ ret' = find_best_matching_detection_index(track_box, detection_boxes)
    /\ UNCHANGED <<mgrVars, removed, extractVars, matchVars, frameVars>>

\* compute_iou(track_box, det_box) for one det_box of the list, as the
\* matcher calls it; the call records the position of det_box in track_id.
CallComputeIou ==
    /\ call.op = "__init__"
    /\ \E i \in 1..Len(detection_boxes) :
          /\ call' = CallOn("compute_iou", i)
          /\ ret' = Some(compute_iou(track_box, detection_boxes[i]))
    /\ UNCHANGED <<mgrVars, removed, extractVars, matchVars, frameVars>>

NextMatch ==
    \/ CallFindBestMatch
    \/ CallComputeIou

SpecMatch == InitMatch /\ [][NextMatch]_vars

\* --------------------------------------------------- a run of frames
Init ==
    /\ args \in RunArgs
    /\ labels \in FrameLabelVocabularies
    /\ target_labels \in TargetLabelArgs
    /\ config_data \in FrameConfigDatas
    /\ image_shape = FrameShape
    /\ \E c \in FrameLoiterConfigs : InitManager(c)
    /\ infer_results = <<>>
    /\ raw_is_view = FALSE
    /\ detections = EmptyDetections
    /\ raised = None
    /\ bbox = <<0, 0, 0, 0>>
    /\ track_box = <<0, 0, 0, 0>>
    /\ detection_boxes = <<>>
    /\ speed_track_ids = {}
    /\ frames = 0
    /\ active_track_ids = {}
    /\ drawn = {}
    /\ tracker_called = FALSE
    /\ unmatched_track_ids = {}
    /\ call = Call("__init__")
    /\ ret = None
    /\ removed = {}

\* One call of inference_result_handler on a frame.  The speed manager made
\* by the handler itself lives for this call only.  dets and after are bound
\* by \E over a one-element set so that each is computed once per step.
Frame ==
    /\ frames < MaxFrames
    /\ call' = Call("inference_result_handler")
    /\ IF "visualization_params" \notin DOMAIN config_data
       THEN /\ raised' = Some("KeyError")
            /\ UNCHANGED <<mgrVars, removed, detections, speed_track_ids, frames,
                           active_track_ids, drawn, tracker_called, unmatched_track_ids>>
       ELSE \E raw \in RawFrames :
              \E dets \in {extract_detections(image_shape, raw, config_data,
                                             labels, target_labels)} :
                  \E online_targets \in TrackerOutputs :
                    \E after \in {draw_detections(dets, labels, target_labels, args,
                                    loitering_detection_of(labels, args),
                                    person_class_index_of(labels, args),
                                    <<track_start_frames, current_frame, frame_threshold>>,
                                    IF args.speed_manager THEN speed_track_ids ELSE {},
                                    online_targets)} :
                        /\ raised' = None
                        /\ detections' = dets
                        /\ track_start_frames' = after.tsf
                        /\ current_frame' = after.current_frame
                        /\ removed' = removed \cup (DOMAIN track_start_frames \ DOMAIN after.tsf)
                        /\ speed_track_ids' = IF args.speed_manager THEN after.speed_ids
                                              ELSE speed_track_ids
                        /\ frames' = frames + 1
                        /\ active_track_ids' = after.current_track_ids
                        /\ drawn' = after.drawn
                        /\ tracker_called' = after.tracker_called
                        /\ unmatched_track_ids' =
                               IF after.tracker_called
                               THEN unmatched_ids(online_targets, dets.detection_boxes)
                               ELSE {}
                        /\ UNCHANGED cfgVars
    /\ UNCHANGED <<ret, argVars, infer_results, bbox, matchVars, args>>

Next == Frame

Spec == Init /\ [][Next]_vars

\* ------------------------------------------------ claims on the manager

\* C1: is_loitering(track_id) returns true exactly when track_id has a
\* recorded start_frame and current_frame - start_frame is strictly greater
\* than loitering_threshold * fps, and false for an unknown track_id; with a
\* threshold of 1.0 s at 10 fps a track whose start_frame is 5 is not
\* loitering at frame 15 and is loitering at frame 16.
C1_IsLoiteringIff ==
    call.op = "is_loitering" =>
        LET t == call.track_id
            known == t \in DOMAIN track_start_frames
        IN  /\ ret = Some(known /\ (current_frame - track_start_frames[t]) * 10
                                        > loitering_threshold * fps)
            /\ ~known => ret = Some(FALSE)
            /\ (known /\ loitering_threshold = 10 /\ fps = 10 /\ track_start_frames[t] = 5) =>
                   /\ current_frame = 15 => ret = Some(FALSE)
                   /\ current_frame = 16 => ret = Some(TRUE)

C1_Witness ==
    /\ call.op = "is_loitering"
    /\ loitering_threshold = 10 /\ fps = 10
    /\ call.track_id \in DOMAIN track_start_frames
    /\ track_start_frames[call.track_id] = 5
    /\ current_frame = 16
    /\ ret = Some(TRUE)

\* C4: cleanup_missing_tracks(active) removes exactly the track_ids that are
\* not in active, keeps the start_frame of every retained track_id and
\* leaves current_frame alone; an update_track of a track_id that was removed
\* earlier records the current_frame of that later call.
C4_CleanupExact ==
    [][ /\ call'.op = "cleanup_missing_tracks" =>
              /\ DOMAIN track_start_frames'
                    = DOMAIN track_start_frames \cap call'.current_track_ids
              /\ \A t \in DOMAIN track_start_frames' :
                    track_start_frames'[t] = track_start_frames[t]
              /\ current_frame' = current_frame
        /\ (/\ call'.op = "update_track"
            /\ call'.track_id \in removed
            /\ call'.track_id \notin DOMAIN track_start_frames) =>
              /\ call'.track_id \in DOMAIN track_start_frames'
              /\ track_start_frames'[call'.track_id] = current_frame'
      ]_vars

\* a removed track_id observed again, in a later frame than the one other
\* track_id is kept from
C4_Witness ==
    /\ call.op = "update_track"
    /\ call.track_id \in removed
    /\ call.track_id \in DOMAIN track_start_frames
    /\ track_start_frames[call.track_id] = current_frame
    /\ \E u \in DOMAIN track_start_frames : track_start_frames[u] < current_frame

\* C5: as long as cleanup_missing_tracks does not remove it, the start_frame
\* of a track_id stays the current_frame of the first update_track call for
\* it: the first call records current_frame, and no update_frame_count,
\* update_track or is_loitering call changes a recorded start_frame.
C5_UpdateTrackIdempotent ==
    [][ /\ (call'.op = "update_track" /\ call'.track_id \notin DOMAIN track_start_frames) =>
              /\ call'.track_id \in DOMAIN track_start_frames'
              /\ track_start_frames'[call'.track_id] = current_frame
        /\ call'.op \in {"update_frame_count", "update_track", "is_loitering"} =>
              \A t \in DOMAIN track_start_frames :
                  /\ t \in DOMAIN track_start_frames'
                  /\ track_start_frames'[t] = track_start_frames[t]
      ]_vars

\* update_track called again on a track_id recorded in an earlier frame
C5_Witness ==
    /\ call.op = "update_track"
    /\ call.track_id \in DOMAIN track_start_frames
    /\ track_start_frames[call.track_id] < current_frame

\* C6: is_loitering(track_id) is false right after the first
\* update_track(track_id), and once true it stays true over every later call
\* that does not remove the track_id (a cleanup_missing_tracks whose active
\* set holds the track_id, or any other call).
C6_LoiteringMonotone ==
    [][ /\ (call'.op = "update_track" /\ call'.track_id \notin DOMAIN track_start_frames) =>
              ~is_loitering(track_start_frames', current_frame', frame_threshold', call'.track_id)
        /\ \A t \in TrackIds :
              (/\ is_loitering(track_start_frames, current_frame, frame_threshold, t)
               /\ (call'.op = "cleanup_missing_tracks" => t \in call'.current_track_ids))
              => is_loitering(track_start_frames', current_frame', frame_threshold', t)
      ]_vars

\* a loitering track_id observed again and kept by a cleanup, still loitering
C6_Witness ==
    /\ call.op = "cleanup_missing_tracks"
    /\ \E t \in call.current_track_ids :
          /\ t \in DOMAIN track_start_frames
          /\ (current_frame - track_start_frames[t]) * 10 > frame_threshold + 10

\* ------------------------------------------- claims on extract_detections
ScoreThres == Get(config_data["visualization_params"], "score_thres", DefaultScoreThres)
MaxBoxesToDraw == Get(config_data["visualization_params"], "max_boxes_to_draw", DefaultMaxBoxes)
TargetLabelSet == IF target_labels = None THEN {"person", "car"} ELSE Range(target_labels[1])
Returned == call.op = "extract_detections" /\ raised = None

\* C7: extract_detections returns at most max_boxes_to_draw entries, every
\* returned class_id indexes a label of the target label set, every returned
\* score is >= score_thres, and num_detections is the length of each of the
\* three output lists.
C7_SelectorGuarantee ==
    Returned =>
        /\ detections.num_detections <= MaxBoxesToDraw
        /\ Len(detections.detection_boxes) = detections.num_detections
        /\ Len(detections.detection_classes) = detections.num_detections
        /\ Len(detections.detection_scores) = detections.num_detections
        /\ \A k \in 1..Len(detections.detection_classes) :
              /\ detections.detection_classes[k] \in 0..(Len(labels) - 1)
              /\ labels[detections.detection_classes[k] + 1] \in TargetLabelSet
        /\ \A k \in 1..Len(detections.detection_scores) :
              detections.detection_scores[k] >= ScoreThres

\* a full output, cut at max_boxes_to_draw, of an input that also holds a
\* detection under the threshold and a detection of a class that is no target
C7_Witness ==
    /\ Returned
    /\ detections.num_detections = MaxBoxesToDraw
    /\ detections.num_detections >= 1
    /\ \E c \in 1..Len(infer_results) : \E k \in 1..Len(infer_results[c]) :
          infer_results[c][k].score < ScoreThres
    /\ \E c \in 1..Len(infer_results) :
          /\ infer_results[c] # <<>>
          /\ (c > Len(labels) \/ labels[Min(c, Len(labels))] \notin TargetLabelSet)

\* The raw detections (class_id, position) of a target class with a score >=
\* score_thres, and the 1-based place of each in the order score descending,
\* then class_id ascending, then position ascending.
Eligible(dets) ==
    {e \in UNION {{<<c, k>> : k \in 1..Len(dets[c + 1])} : c \in 0..(Len(dets) - 1)} :
        /\ e[1] < Len(labels)
        /\ labels[e[1] + 1] \in TargetLabelSet
        /\ dets[e[1] + 1][e[2]].score >= ScoreThres}
Before(dets, a, b) ==
    LET sa == dets[a[1] + 1][a[2]].score
        sb == dets[b[1] + 1][b[2]].score
    IN  \/ sa > sb
        \/ sa = sb /\ a[1] < b[1]
        \/ sa = sb /\ a[1] = b[1] /\ a[2] < b[2]
Place(dets, e) == Cardinality({a \in Eligible(dets) : Before(dets, a, e)}) + 1

\* C8: the output of extract_detections is the first min(max_boxes_to_draw,
\* n) of the n eligible candidates (target class, score >= score_thres) in
\* the order score descending, equal scores by class index and then by
\* position in the per-class list; no detection of another class is in it.
C8_TopKStableOrder ==
    [][ (call'.op = "extract_detections" /\ raised' = None) =>
          LET n == Cardinality(Eligible(infer_results))
              size == Max(image_shape[1], image_shape[2])
              pad == Trunc(Abs(image_shape[1] - image_shape[2]), 2)
          IN  /\ detections'.num_detections = Min(MaxBoxesToDraw, n)
              /\ \A e \in Eligible(infer_results) :
                    LET r == Place(infer_results, e)
                        det == infer_results[e[1] + 1][e[2]]
                    IN  r <= detections'.num_detections =>
                          /\ detections'.detection_scores[r] = det.score
                          /\ detections'.detection_classes[r] = e[1]
                          /\ detections'.detection_boxes[r]
                                = denormalize_and_rm_pad(det.bbox, size, pad,
                                                         image_shape[1], image_shape[2])
      ]_vars

\* two outputs of one score and different boxes, and a raw detection of a
\* higher score that was left out because of its class
C8_Witness ==
    /\ Returned
    /\ detections.num_detections >= 2
    /\ detections.detection_scores[1] = detections.detection_scores[2]
    /\ detections.detection_boxes[1] # detections.detection_boxes[2]
    /\ \E c \in 1..Len(infer_results) : \E k \in 1..Len(infer_results[c]) :
          /\ infer_results[c][k].score > detections.detection_scores[1]
          /\ (c > Len(labels) \/ labels[Min(c, Len(labels))] \notin TargetLabelSet)

\* ------------------------------------------------ claims on the matcher
IouOf(i) == compute_iou(track_box, detection_boxes[i + 1])
Indices == 0..(Len(detection_boxes) - 1)

\* C9: find_best_matching_detection_index returns None when the IoU of the
\* track box with every detection box is 0 (an empty list included), and
\* otherwise the smallest index whose IoU is the maximum over all boxes.
C9_FirstMaximalIndex ==
    call.op = "find_best_matching_detection_index" =>
        IF \A i \in Indices : IouOf(i)[1] = 0
        THEN ret = None
        ELSE \E i \in Indices :
                /\ ret = Some(i)
                /\ \A j \in Indices : ~FracGt(IouOf(j), IouOf(i))
                /\ \A j \in Indices : j < i => FracGt(IouOf(i), IouOf(j))

\* the maximum is reached at two indices, behind a box of a smaller IoU, and
\* the first of the two is returned
C9_Witness ==
    /\ call.op = "find_best_matching_detection_index"
    /\ Len(detection_boxes) >= 3
    /\ ret = Some(1)
    /\ FracEq(IouOf(1), IouOf(2))
    /\ IouOf(0)[1] > 0

\* ------------------------------------------- claims on a run of frames
\* the run has a tracker and a loitering manager, and its frames are handled
TrackedRun ==
    /\ args.tracker
    /\ args.loitering_manager
    /\ "visualization_params" \in DOMAIN config_data

\* C2: with a tracker and a loitering manager, after N frames have been
\* handled current_frame is N, whatever the frames were, frames without any
\* filtered detection included.
C2_FrameCounterCountsFrames ==
    TrackedRun => current_frame = frames

\* C3: with a tracker and a loitering manager, after every handled frame the
\* track_ids that hold loitering state are among the track_ids matched in
\* that frame, frames without any filtered detection included.
C3_LoiteringStateWithinActive ==
    (TrackedRun /\ frames >= 1) => DOMAIN track_start_frames \subseteq active_track_ids

\* C10: with a speed manager, after every frame that went through the
\* tracker the track_ids that hold speed state are among the track_ids
\* matched in that frame: the state of a track that is gone was dropped.
C10_SpeedStateWithinActive ==
    (/\ args.speed_manager
     /\ "visualization_params" \in DOMAIN config_data
     /\ tracker_called) => speed_track_ids \subseteq active_track_ids

\* C11: in a run with enable_person_only and a vocabulary without "person",
\* no frame creates loitering state (update_track is never called) and no
\* drawn track is flagged as loitering.
C11_NoPersonLabelNoLoitering ==
    (args.enable_person_only /\ "person" \notin Range(labels)) =>
        /\ track_start_frames = EmptyDict
        /\ \A d \in drawn : ~d.loitering

\* such a run, after a frame in which a track was matched and drawn
C11_Witness ==
    /\ args.enable_person_only /\ args.loitering_detection /\ args.loitering_manager
    /\ "person" \notin Range(labels)
    /\ tracker_called
    /\ active_track_ids # {}
    /\ \E d \in drawn : d.track_id # None

\* ------------------------------------------------- claims on compute_iou
\* the unit cells of the pixel grid that a box with whole coordinates covers
Cells(box) ==
    {c \in (0..4) \X (0..4) :
        /\ box[1] <= c[1] /\ c[1] + 1 <= box[3]
        /\ box[2] <= c[2] /\ c[2] + 1 <= box[4]}
IouCalled == call.op = "compute_iou"
BoxA == track_box
BoxB == detection_boxes[call.track_id]

C12_WitnessApart ==
    /\ IouCalled
    /\ BoxA[3] < BoxB[1] /\ BoxA[4] < BoxB[2]
    /\ ret[1][1] = 0
C12_WitnessOverlap ==
    /\ IouCalled
    /\ BoxA # BoxB
    /\ Cells(BoxA) \cap Cells(BoxB) # {}
    /\ ret[1][1] > 0
C13_DenormalizePure ==
    [][/\ (call'.op = "denormalize_and_rm_pad" => bbox' = bbox)
       /\ (call'.op = "extract_detections" => infer_results' = infer_results)]_vars
\* ------------------------------------------------------ claims on a run
\* C14: no call of inference_result_handler on a frame fails because the
\* configuration has no "visualization_params" entry (such a configuration
\* is rejected before the first frame).
C14_NoPerFrameConfigFailure ==
    call.op = "inference_result_handler" => raised = None
\* C15: a track that tracker.update returns in a frame and that matches no
\* detection of the frame is not drawn, not added to the active set, not
\* handed to the speed manager and has no loitering state after the frame;
\* when a later frame matches it again its start frame is that later frame.
C15_UnmatchedTrackSkipped ==
    [][call'.op = "inference_result_handler" =>
        /\ \A t \in unmatched_track_ids' :
              /\ \A d \in drawn' : d.track_id # Some(t)
              /\ t \notin active_track_ids'
              /\ t \notin DOMAIN track_start_frames'
              /\ (t \in speed_track_ids') <=> (t \in speed_track_ids)
        /\ \A t \in unmatched_track_ids :
              t \in DOMAIN track_start_frames' => track_start_frames'[t] = current_frame'
      ]_vars

\* a frame has deleted the loitering state of a track that the tracker
\* returned and no detection matched, while another track was drawn
C15_Witness ==
    /\ tracker_called
    /\ \E t \in unmatched_track_ids : t \in removed /\ t \notin DOMAIN track_start_frames
    /\ active_track_ids # {}

\* a track seen in frame 1 and out of the active set in frame 2 is matched
\* again in frame 3 and starts its dwell there
C15_WitnessRestart ==
    /\ frames = 3
    /\ \E t \in removed \cap active_track_ids :
          /\ t \in DOMAIN track_start_frames
          /\ track_start_frames[t] = 3
\* the class index (0-based) of the first "person" label of the vocabulary
PersonClass ==
    CHOOSE i \in 0..(Len(labels) - 1) :
        /\ labels[i + 1] = "person"
        /\ \A j \in 0..(i - 1) : labels[j + 1] # "person"
PersonOnlyRun == args.enable_person_only /\ "person" \in Range(labels)

\* C16: in a person-only run with "person" in the vocabulary, a frame flags
\* a track only if it drew it with the person class, and creates loitering
\* state only for a track it drew with the person class.
C16_PersonOnlyObserved ==
    [][(PersonOnlyRun /\ call'.op = "inference_result_handler") =>
        /\ \A d \in drawn' : d.loitering => d.class_id = PersonClass
        /\ \A t \in DOMAIN track_start_frames' \ DOMAIN track_start_frames :
              \E d \in drawn' : d.track_id = Some(t) /\ d.class_id = PersonClass
      ]_vars

\* a person-only run after a frame that flagged a track on a person and drew
\* another track, without loitering state, on a detection of another class
C16_Witness ==
    /\ PersonOnlyRun
    /\ \E d \in drawn : d.loitering /\ d.class_id = PersonClass
    /\ \E d \in drawn :
          /\ d.track_id # None
          /\ d.class_id # PersonClass
          /\ d.track_id[1] \notin DOMAIN track_start_frames
\* C17: a frame displays a speed for a track only if the speed manager passed
\* to the handler held a position for that track before the frame, so the
\* first frame that matches a track displays none; every track matched in a
\* frame is handed to estimate_speed of that manager.
C17_FirstSpeedUnavailable ==
    [][call'.op = "inference_result_handler" =>
        /\ \A d \in drawn' :
              d.speed # None =>
                  /\ args.speed_manager
                  /\ d.track_id # None
                  /\ d.track_id[1] \in speed_track_ids
        /\ (args.speed_manager /\ tracker_called') =>
              speed_track_ids' = speed_track_ids \cup active_track_ids'
      ]_vars

\* a frame drew one track with a speed and another, matched for the first
\* time, without
C17_Witness ==
    /\ args.speed_manager
    /\ \E d \in drawn : d.speed # None
    /\ \E d \in drawn : d.track_id # None /\ d.speed = None
    /\ frames = 2
\* the frame just handled had no tracker to go to, or no detection left
\* after the filters
QuietFrame ==
    /\ call.op = "inference_result_handler"
    /\ raised = None
    /\ ~args.tracker \/ detections.num_detections = 0

\* C18: a frame handled without a tracker, or with an empty filtered
\* detection set, leaves current_frame and every start frame as they were,
\* does not call tracker.update and leaves the speed state as it was.
C18_QuietFrameNoEffect ==
    [][QuietFrame' =>
        /\ track_start_frames' = track_start_frames
        /\ current_frame' = current_frame
        /\ ~tracker_called'
        /\ speed_track_ids' = speed_track_ids
      ]_vars

\* a frame without detections handled while the manager held a track and
\* the speed manager a position
C18_Witness ==
    /\ QuietFrame
    /\ args.tracker
    /\ frames >= 2
    /\ track_start_frames # EmptyDict
    /\ speed_track_ids # {}
    /\ ~tracker_called

\* a frame with detections handled without a tracker
C18_WitnessNoTracker ==
    /\ QuietFrame
    /\ ~args.tracker
    /\ detections.num_detections > 0
    /\ drawn # {}
    /\ current_frame = 0
\* C19: is_loitering is a query: a call, on a known or an unknown track_id,
\* leaves the tracked ids, every start frame and current_frame as they were;
\* an unknown track_id gets no entry.
C19_IsLoiteringReadOnly ==
    [][call'.op = "is_loitering" =>
        /\ track_start_frames' = track_start_frames
        /\ current_frame' = current_frame
        /\ <<loitering_threshold, fps, frame_threshold>>' = <<loitering_threshold, fps, frame_threshold>>
      ]_vars

\* is_loitering has answered for a track_id that the manager, which tracks
\* another one, does not know
C19_Witness ==
    /\ call.op = "is_loitering"
    /\ call.track_id \notin DOMAIN track_start_frames
    /\ track_start_frames # EmptyDict
    /\ current_frame > 0
    /\ ret = Some(FALSE)
\* every start frame the manager holds lies between 1 and current_frame
StartFramesInRange ==
    \A t \in DOMAIN track_start_frames :
        1 <= track_start_frames[t] /\ track_start_frames[t] <= current_frame

\* C20: over the frames of a run current_frame never decreases, and in every
\* state each recorded start frame is at least 1 and at most current_frame.
C20_StartFramesWithinCounter ==
    /\ []StartFramesInRange
    /\ [][current_frame' >= current_frame]_vars

\* after three frames that reached the tracker the manager holds a track
\* seen since the first frame and one first seen in a later frame
C20_Witness ==
    /\ current_frame = 3
    /\ \E t, u \in DOMAIN track_start_frames :
          /\ track_start_frames[t] = 1
          /\ track_start_frames[u] > 1
====
